---- MODULE Spec2Model ----
(***************************************************************************)
(* palettePal (src/main.py): one run of the pipeline                       *)
(*   input path, input swatch count -> create_combined_image               *)
(*     -> layout -> get_dominant_colors -> swatch loop -> get_exif_data    *)
(*     -> metadata text -> save -> show.                                   *)
(*                                                                         *)
(* Python floats are IEEE binary64.  They are modelled exactly: a value is *)
(* a natural number of units of 2^-75, held as a sequence of limbs         *)
(* (least significant first, base 2^15), and every float operation rounds  *)
(* its exact result to 53 significant bits, ties to even.                  *)
(***************************************************************************)
EXTENDS Integers, Sequences, FiniteSets, TLC

(***************************************************************************)
(* Natural numbers of any size: <<l1, l2, ...>> is l1 + l2*Base + ...      *)
(* with no zero limb at the top; zero is <<>>.                             *)
(***************************************************************************)

Base == 2^15

RECURSIVE BigNorm(_)
BigNorm(x) ==
    IF x = <<>> THEN <<>>
    ELSE IF x[Len(x)] = 0 THEN BigNorm(SubSeq(x, 1, Len(x) - 1)) ELSE x

RECURSIVE BigOfInt(_)
BigOfInt(n) == IF n = 0 THEN <<>> ELSE <<n % Base>> \o BigOfInt(n \div Base)

\* the value of x as an integer; x must be below Base^2
BigToInt(x) ==
    IF Len(x) = 0 THEN 0
    ELSE IF Len(x) = 1 THEN x[1]
    ELSE x[1] + Base * x[2]

Limb(x, i) == IF i <= Len(x) THEN x[i] ELSE 0

RECURSIVE BigAddC(_, _, _, _)
BigAddC(x, y, i, carry) ==
    IF i > Len(x) /\ i > Len(y)
    THEN IF carry = 0 THEN <<>> ELSE <<carry>>
    ELSE LET s == Limb(x, i) + Limb(y, i) + carry
         IN  <<s % Base>> \o BigAddC(x, y, i + 1, s \div Base)

BigAdd(x, y) == BigAddC(x, y, 1, 0)

RECURSIVE BigSubC(_, _, _, _)
BigSubC(x, y, i, borrow) ==
    IF i > Len(x) THEN <<>>
    ELSE LET s == Limb(x, i) - Limb(y, i) - borrow
         IN  IF s < 0 THEN <<s + Base>> \o BigSubC(x, y, i + 1, 1)
                      ELSE <<s>> \o BigSubC(x, y, i + 1, 0)

\* x - y, for x >= y
BigSub(x, y) == BigNorm(BigSubC(x, y, 1, 0))

RECURSIVE BigCmpFrom(_, _, _)
BigCmpFrom(x, y, i) ==
    IF i = 0 THEN 0
    ELSE IF x[i] < y[i] THEN -1
    ELSE IF x[i] > y[i] THEN 1
    ELSE BigCmpFrom(x, y, i - 1)

\* -1, 0 or 1 as x < y, x = y or x > y (both normalised)
BigCmp(x, y) ==
    IF Len(x) < Len(y) THEN -1
    ELSE IF Len(x) > Len(y) THEN 1
    ELSE BigCmpFrom(x, y, Len(x))

RECURSIVE BigMulSmallC(_, _, _, _)
BigMulSmallC(x, s, i, carry) ==
    IF i > Len(x)
    THEN IF carry = 0 THEN <<>> ELSE <<carry>>
    ELSE LET t == x[i] * s + carry
         IN  <<t % Base>> \o BigMulSmallC(x, s, i + 1, t \div Base)

\* x * s, for 0 <= s < Base
BigMulSmall(x, s) == IF s = 0 THEN <<>> ELSE BigMulSmallC(x, s, 1, 0)

\* x * Base^k
BigShiftLimbs(x, k) == IF x = <<>> THEN <<>> ELSE [i \in 1..k |-> 0] \o x

\* x * n, for 0 <= n < Base^2
BigMulInt(x, n) ==
    BigAdd(BigMulSmall(x, n % Base),
           BigShiftLimbs(BigMulSmall(x, n \div Base), 1))

\* x * 2^b
BigShl(x, b) == BigShiftLimbs(BigMulSmall(x, 2^(b % 15)), b \div 15)

\* floor(x / 2^b)
BigShr(x, b) ==
    LET k == b \div 15
        r == b % 15
        n == Len(x) - k
    IN  IF n <= 0 THEN <<>>
        ELSE BigNorm([i \in 1..n |->
                 (x[i + k] \div 2^r) + (Limb(x, i + k + 1) % 2^r) * 2^(15 - r)])

RECURSIVE IntBitLen(_)
IntBitLen(n) == IF n = 0 THEN 0 ELSE 1 + IntBitLen(n \div 2)

BigBitLen(x) ==
    IF x = <<>> THEN 0 ELSE 15 * (Len(x) - 1) + IntBitLen(x[Len(x)])

\* bit i of x (bit 0 is the least significant)
BigBit(x, i) == (Limb(x, (i \div 15) + 1) \div 2^(i % 15)) % 2

\* x mod 2^p = 0
BigLowZero(x, p) ==
    /\ \A i \in 1..(p \div 15) : Limb(x, i) = 0
    /\ Limb(x, (p \div 15) + 1) % 2^(p % 15) = 0

RECURSIVE BigDivSmallC(_, _, _, _)
BigDivSmallC(x, t, i, rem) ==
    IF i = 0 THEN <<<<>>, rem>>
    ELSE LET cur  == rem * Base + x[i]
             rest == BigDivSmallC(x, t, i - 1, cur % t)
         IN  <<Append(rest[1], cur \div t), rest[2]>>

\* <<floor(x / t), x mod t>>, for 0 < t < 2 * Base
BigDivSmall(x, t) ==
    LET r == BigDivSmallC(x, t, Len(x), 0)
    IN  <<BigNorm(r[1]), r[2]>>

\* one bit of binary long division: qr is <<quotient, remainder>> so far
BigDivStep(x, y, i, qr) ==
    LET r2 == BigAdd(BigMulSmall(qr[2], 2), BigOfInt(BigBit(x, i)))
        q2 == BigMulSmall(qr[1], 2)
    IN  IF BigCmp(r2, y) >= 0
        THEN <<BigAdd(q2, <<1>>), BigSub(r2, y)>>
        ELSE <<q2, r2>>

\* binary long division, bit i of x downward (each step's result is bound as a
\* value before the next step reads it)
RECURSIVE BigDivModC(_, _, _, _)
BigDivModC(x, y, i, qr) ==
    IF i < 0 THEN qr
    ELSE CHOOSE res \in {BigDivModC(x, y, j, nx) :
                             j \in {i - 1}, nx \in {BigDivStep(x, y, i, qr)}} : TRUE

\* the division of values x by y
BigDivModV(x, y) ==
    IF BigCmp(x, y) < 0 THEN <<<<>>, x>>
    ELSE LET s  == BigBitLen(x) - BigBitLen(y)
             r0 == BigShr(x, s)
         IN  IF BigCmp(r0, y) >= 0
             THEN BigDivModC(x, y, s - 1, <<<<1>>, BigSub(r0, y)>>)
             ELSE BigDivModC(x, y, s - 1, <<<<>>, r0>>)

\* <<floor(x / y), x mod y>>, for y > 0: the bits of x above the length of y
\* are below 2 * y, so the division starts there
BigDivMod(x, y) ==
    CHOOSE res \in {BigDivModV(xv, yv) : xv \in {x}, yv \in {y}} : TRUE

\* |x - y|
BigAbsDiff(x, y) == IF BigCmp(x, y) >= 0 THEN BigSub(x, y) ELSE BigSub(y, x)

(***************************************************************************)
(* IEEE binary64 arithmetic.  A float in [0, 2^15) is the natural number   *)
(* of units of 2^-75 it holds (five limbs below the binary point); every   *)
(* float this program computes is such a multiple.                         *)
(***************************************************************************)
MantBits == 53

\* the value x rounded to MantBits significant bits, ties to even; sticky says
\* that the exact value lies strictly above x (a division's remainder)
RoundSigV(x, sticky) ==
    LET n == BigBitLen(x)
        p == n - MantBits
    IN  IF p <= 0 THEN x
        ELSE LET trunc == BigShl(BigShr(x, p), p)
                 guard == BigBit(x, p - 1)
                 rest  == sticky \/ ~BigLowZero(x, p - 1)
                 up    == guard = 1 /\ (rest \/ BigBit(x, p) = 1)
             IN  IF up THEN BigAdd(trunc, BigShl(<<1>>, p)) ELSE trunc

RoundSig(x, sticky) == CHOOSE res \in {RoundSigV(xv, sticky) : xv \in {x}} : TRUE

FloatOfInt(n) == BigShiftLimbs(BigOfInt(n), 5)

\* c / t as a float, for integers 0 < c, 0 < t < 2^16
FloatDiv(c, t) ==
    CHOOSE res \in {RoundSigV(qr[1], qr[2] # 0) :
                       qr \in {BigDivSmall(FloatOfInt(c), t)}} : TRUE

FloatAdd(a, b) == RoundSig(BigAdd(a, b), FALSE)

\* a * w as a float, for an integer 0 <= w < 2^30
FloatMulInt(a, w) == RoundSig(BigMulInt(a, w), FALSE)

\* int(a): truncation toward zero
FloatToInt(a) == BigToInt(BigShr(a, 75))

\* the literals of src/main.py as binary64 values
Float_0_1  == <<0, 6560, 13107, 26214, 3276>>
Float_0_08 == <<0, 18352, 30146, 14417, 2621>>
Float_0_2  == <<0, 13120, 26214, 19660, 6553>>
Float_0_03 == <<0, 31456, 23592, 1310, 983>>
Float_1_2  == <<0, 13056, 26214, 19660, 6553, 1>>
Float_0_5  == <<0, 0, 0, 0, 16384>>
Float_0_0  == <<>>

(***************************************************************************)
(* fractions.Fraction(x).limit_denominator(), as get_exif_data calls it.   *)
(* Fraction(x) of a float x is exact: num / den with den a power of two.   *)
(***************************************************************************)
MaxDenominator == 1000000

RECURSIVE Gcd(_, _)
Gcd(a, b) == IF b = 0 THEN a ELSE Gcd(b, a % b)

\* |p/q - num/den| * den * q, the distance of p/q from num/den scaled to a natural
FracDist(p, q, num, den) == BigAbsDiff(BigMulInt(den, p), BigMulInt(num, q))

\* one turn of the continued-fraction loop on st = <<p0, q0, p1, q1, n, d>>,
\* qr being divmod(n, d): <<stop, the next st>>
ConvergentStep(st, qr) ==
    LET a == IF Len(qr[1]) <= 2 THEN BigToInt(qr[1]) ELSE Base * Base
    IN  IF st[4] > 0 /\ a > (MaxDenominator - st[2]) \div st[4]
        THEN <<TRUE, st>>
        ELSE <<FALSE, <<st[3], st[4], st[1] + a * st[3], st[2] + a * st[4], st[6], qr[2]>> >>

\* the loop: the convergents p1/q1 while the denominator fits
RECURSIVE ConvergentLoop(_)
ConvergentLoop(st) ==
    CHOOSE res \in {IF nx[1] THEN nx[2] ELSE ConvergentLoop(nx[2]) :
                       nx \in {ConvergentStep(st, qr) :
                                  qr \in {BigDivModV(st[5], st[6])}}} : TRUE

\* ClosestBound without the comparison: always the semiconvergent
ClosestBound_Semi(c, num, den) ==
    LET k == (MaxDenominator - c[2]) \div c[4]
        g == Gcd(c[1] + k * c[3], c[2] + k * c[4])
    IN  <<(c[1] + k * c[3]) \div g, (c[2] + k * c[4]) \div g>>

\* the closer of the last convergent and the last semiconvergent that fits
ClosestBound(c, num, den) ==
    LET p0  == c[1]
        q0  == c[2]
        p1  == c[3]
        q1  == c[4]
        k   == (MaxDenominator - q0) \div q1
        g   == Gcd(p0 + k * p1, q0 + k * q1)
        b1p == (p0 + k * p1) \div g
        b1q == (q0 + k * q1) \div g
    IN  IF BigCmp(BigMulInt(FracDist(p1, q1, num, den), b1q),
                  BigMulInt(FracDist(b1p, b1q, num, den), q1)) <= 0
        THEN <<p1, q1>>
        ELSE <<b1p, b1q>>

LimitDenominatorV(num, den) ==
    IF BigCmp(den, BigOfInt(MaxDenominator)) <= 0
    THEN <<BigToInt(num), BigToInt(den)>>
    ELSE CHOOSE res \in {ClosestBound(c, num, den) :
                            c \in {ConvergentLoop(st) :
                                      st \in {<<0, 1, 1, 0, num, den>>}}} : TRUE

\* Fraction(num, den).limit_denominator() as <<numerator, denominator>>
LimitDenominator(num, den) ==
    CHOOSE res \in {LimitDenominatorV(nv, dv) : nv \in {num}, dv \in {den}} : TRUE

(***************************************************************************)
(* Bounds of the inputs the model draws.                                   *)
(***************************************************************************)
\* the longest swatch-count text typed at the prompt
MaxTextLen == 2
\* the most distinct colours among the analysed pixels
MaxColors == 3
\* the most analysed pixels that are not of the image's commonest colour
MaxStray == 3
\* the largest denominator of the fractions a shutter speed is compared with
MaxCandidateDen == 20

\* the characters typed at the swatch-count prompt
Alphabet == {"0", "2", "3", "-", " ", "x"}
\* the <<width, height>> of the image files
Dims == {<<1, 1>>, <<3, 2>>, <<10, 1>>, <<400, 200>>}

RECURSIVE SeqSum(_)
SeqSum(q) == IF q = <<>> THEN 0 ELSE q[1] + SeqSum(Tail(q))

Min(a, b) == IF a <= b THEN a ELSE b
Max(a, b) == IF a >= b THEN a ELSE b
Abs(a) == IF a < 0 THEN -a ELSE a

(***************************************************************************)
(* int(input(...)): Python's int() of a string strips white space, takes   *)
(* one optional sign, then decimal digits with single underscores between  *)
(* digits; anything else raises ValueError.                                *)
(***************************************************************************)
Digits == {"0", "1", "2", "3", "4", "5", "6", "7", "8", "9"}

DigitVal(c) ==
    CASE c = "0" -> 0 [] c = "1" -> 1 [] c = "2" -> 2 [] c = "3" -> 3
      [] c = "4" -> 4 [] c = "5" -> 5 [] c = "6" -> 6 [] c = "7" -> 7
      [] c = "8" -> 8 [] c = "9" -> 9

RECURSIVE StripLeft(_)
StripLeft(t) == IF t # <<>> /\ t[1] = " " THEN StripLeft(Tail(t)) ELSE t

RECURSIVE StripRight(_)
StripRight(t) ==
    IF t # <<>> /\ t[Len(t)] = " " THEN StripRight(SubSeq(t, 1, Len(t) - 1)) ELSE t

Strip(t) == StripRight(StripLeft(t))

HasSign(t) == t # <<>> /\ t[1] \in {"-", "+"}

Unsigned(t) == IF HasSign(t) THEN Tail(t) ELSE t

\* digits, with underscores only between two digits
IsDigitString(d) ==
    /\ d # <<>>
    /\ \A i \in 1..Len(d) :
          \/ d[i] \in Digits
          \/ /\ d[i] = "_"
             /\ 1 < i /\ i < Len(d)
             /\ d[i - 1] \in Digits /\ d[i + 1] \in Digits

IsIntLiteral(t) == IsDigitString(Unsigned(Strip(t)))

RECURSIVE DigitsValue(_, _)
DigitsValue(d, acc) ==
    IF d = <<>> THEN acc
    ELSE IF d[1] = "_" THEN DigitsValue(Tail(d), acc)
    ELSE DigitsValue(Tail(d), 10 * acc + DigitVal(d[1]))

\* int(t), for IsIntLiteral(t)
IntOf(t) ==
    LET u == Strip(t)
        v == DigitsValue(Unsigned(u), 0)
    IN  IF HasSign(u) /\ u[1] = "-" THEN -v ELSE v

Texts == UNION {[1..n -> Alphabet] : n \in 0..MaxTextLen}

(***************************************************************************)
(* Image.thumbnail(resize_dim): the size of the downscaled copy keeps the  *)
(* aspect ratio within resize_dim; an image that fits is left as it is.    *)
(***************************************************************************)
ResizeDim == 200

ThumbSize(w, h) ==
    IF ResizeDim >= w /\ ResizeDim >= h THEN <<w, h>>
    ELSE IF h >= w
         \* x / y >= aspect: the width shrinks; key |w/h - n/y|, scaled by y*h
         \* of floor and ceil of 200 * w / h the one of smaller key (the floor
         \* on a tie), and at least 1
         THEN LET KeyX(n) == Abs(ResizeDim * w - n * h)
                  lo == (ResizeDim * w) \div h
                  hi == IF (ResizeDim * w) % h = 0 THEN lo ELSE lo + 1
              IN  <<Max(IF KeyX(hi) < KeyX(lo) THEN hi ELSE lo, 1), ResizeDim>>
         \* the height shrinks; key |w/h - x/n| (0 for n = 0), as a comparison
         \* of the two candidates n and n + 1 scaled by h * n * (n + 1)
         ELSE LET lo == (ResizeDim * h) \div w
                  hi == IF (ResizeDim * h) % w = 0 THEN lo ELSE lo + 1
                  Dist(n) == Abs(w * n - ResizeDim * h)
              IN  <<ResizeDim,
                    Max(IF lo # 0 /\ Dist(hi) * lo < Dist(lo) * hi THEN hi ELSE lo, 1)>>

AnalysedPixels(w, h) == ThumbSize(w, h)[1] * ThumbSize(w, h)[2]

(***************************************************************************)
(* The analysed pixels, as the number of pixels of each distinct colour    *)
(* (commonest first).                                                      *)
(***************************************************************************)
IsHistogram(q, n) ==
    /\ SeqSum(q) = n
    /\ \A i \in 1..Len(q) - 1 : q[i] >= q[i + 1]

Histograms(n) ==
    {<<n>>} \cup
    UNION {{<<n - SeqSum(r)>> \o r : r \in {r \in [1..c -> 1..MaxStray] :
                                         /\ SeqSum(r) <= MaxStray
                                         /\ IsHistogram(<<n - SeqSum(r)>> \o r, n)}} :
           c \in 1..MaxColors - 1}

(***************************************************************************)
(* KMeans(n_clusters=k).fit(pixels), then np.unique(labels_).  Equal       *)
(* pixels get equal labels.  The label values are read by np.unique alone, *)
(* which keeps their order: the result is the pixel count of each label    *)
(* that occurs, in label order.  With fewer distinct colours than clusters *)
(* every colour is a cluster of its own and the other labels do not occur. *)
(***************************************************************************)
Groupings(d, k) ==
    LET m == Min(d, k)
    IN  {g \in [1..d -> 1..m] : \A j \in 1..m : \E c \in 1..d : g[c] = j}

RECURSIVE GroupCount(_, _, _, _)
GroupCount(hist, g, j, c) ==
    IF c > Len(hist) THEN 0
    ELSE (IF g[c] = j THEN hist[c] ELSE 0) + GroupCount(hist, g, j, c + 1)

UniqueCounts(hist, g, k) ==
    [j \in 1..Min(Len(hist), k) |-> GroupCount(hist, g, j, 1)]

\* ArgSorts without the minus sign: np.argsort(counts)
ArgSorts_Ascending(cnt) ==
    {p \in [1..Len(cnt) -> 1..Len(cnt)] :
        /\ \A i, j \in 1..Len(cnt) : i # j => p[i] # p[j]
        /\ \A i \in 1..Len(cnt) - 1 : cnt[p[i]] <= cnt[p[i + 1]]}

\* np.argsort(-counts): the default sort is not stable, so equal counts may
\* come in any order
ArgSorts(cnt) ==
    {p \in [1..Len(cnt) -> 1..Len(cnt)] :
        /\ \A i, j \in 1..Len(cnt) : i # j => p[i] # p[j]
        /\ \A i \in 1..Len(cnt) - 1 : -cnt[p[i]] <= -cnt[p[i + 1]]}

(***************************************************************************)
(* EXIF values.  A raw tag value is a record: its Python type (kind), its  *)
(* str() text (s), the two items of a tuple (a, b) and, for a float, the   *)
(* exact ratio num / den that Fraction(x) holds.                           *)
(***************************************************************************)
Val(kind, s, a, b, num, den) ==
    [s |-> s, b |-> b, a |-> a, num |-> num, den |-> den, kind |-> kind]

StrVal(s) == Val("str", s, 0, 0, <<>>, <<>>)
IntVal(n) == Val("int", ToString(n), n, 0, <<>>, <<>>)
TupleVal(a, b) ==
    Val("tuple", "(" \o ToString(a) \o ", " \o ToString(b) \o ")", a, b, <<>>, <<>>)
\* the float whose repr is s and whose value is num / 2^denExp exactly
FloatVal(s, num, denExp) == Val("float", s, 0, 0, num, BigShl(<<1>>, denExp))
\* a value of another type (Pillow's IFDRational)
OtherVal(s) == Val("other", s, 0, 0, <<>>, <<>>)

Float_0_005 == FloatVal("0.005", <<5243, 3932, 27525, 163>>, 60)
Float_third == FloatVal("0.3333333333333333", <<21845, 10922, 21845, 170>>, 54)
Float_0_3   == FloatVal("0.3", <<13107, 26214, 19660, 153>>, 54)
Float_2_5   == FloatVal("2.5", <<5>>, 1)
Float_2_8   == FloatVal("2.8", <<13107, 26214, 19660, 89>>, 50)

\* the raw forms of ExposureTime in the tag tables
ShutterValues ==
    {TupleVal(1, 200), TupleVal(10, 2000), Float_0_005, Float_third, Float_0_3,
     Float_2_5, StrVal("1/200"), OtherVal("0.005"), IntVal(2)}

\* PIL.ExifTags.TAGS, on the tag numbers of the tables
TagName(tag) ==
    CASE tag = 33434 -> "ExposureTime"
      [] tag = 33437 -> "FNumber"
      [] tag = 34855 -> "ISOSpeedRatings"
      [] tag = 272   -> "Model"
      [] tag = 42036 -> "LensModel"
      [] tag = 271   -> "Make"
      [] OTHER       -> ToString(tag)

FullTable(shutter) ==
    [tag \in {271, 272, 33434, 33437, 34855, 42036} |->
        CASE tag = 33434 -> shutter
          [] tag = 33437 -> Float_2_8
          [] tag = 34855 -> IntVal(100)
          [] tag = 272   -> StrVal("X100")
          [] tag = 42036 -> StrVal("23mm")
          [] tag = 271   -> StrVal("Maker")]

\* a table with none of the five tags read
BareTable == [tag \in {271, 59932} |-> StrVal("Maker")]

EmptyTable == [tag \in {} |-> StrVal("")]

\* what image._getexif() returns: None (no block), or a table from tag number
\* to value
NoBlock == [block |-> FALSE, table |-> EmptyTable]
Block(table) == [block |-> TRUE, table |-> table]

AllExifTables ==
    {NoBlock, Block(EmptyTable), Block(BareTable)}
        \cup {Block(FullTable(v)) : v \in ShutterValues}

\* the tables of the files of a whole run
ExifTables == {NoBlock, Block(EmptyTable), Block(FullTable(Float_0_005))}

\* the formats of the image files; only some plugins define _getexif
Formats == {"JPEG", "BMP"}
HasGetExif(fmt) == fmt = "JPEG"

\* exif_dict.get(name, "Unknown")
ExifGet(table, name) ==
    IF \E tag \in DOMAIN table : TagName(tag) = name
    THEN table[CHOOSE tag \in DOMAIN table : TagName(tag) = name]
    ELSE StrVal("Unknown")

FormatFraction(n, d) == StrVal(ToString(n) \o "/" \o ToString(d) \o " sec")

FormatShutter(v) ==
    IF v.kind = "tuple" THEN FormatFraction(v.a, v.b)
    ELSE IF v.kind = "float"
         THEN LET frac == LimitDenominator(v.num, v.den)
              IN  FormatFraction(frac[1], frac[2])
         ELSE v

FormatAperture(v) ==
    IF v # StrVal("Unknown") THEN StrVal("f/" \o v.s) ELSE StrVal("Unknown")

\* the dict get_exif_data returns, as its items in order
ExifRecord(table) ==
    << <<"Aperture", FormatAperture(ExifGet(table, "FNumber"))>>,
       <<"ISO", ExifGet(table, "ISOSpeedRatings")>>,
       <<"Shutter Speed", FormatShutter(ExifGet(table, "ExposureTime"))>>,
       <<"Camera", ExifGet(table, "Model")>>,
       <<"Lens", ExifGet(table, "LensModel")>> >>

\* "if not exif_data": None and the empty table
NoExif(raw) == ~raw.block \/ raw.table = EmptyTable

(***************************************************************************)
(* The run.  A name that is not bound yet holds an empty value of its      *)
(* type; pc says how far the run is.                                       *)
(***************************************************************************)
VARIABLES
    pc,                \* the statement the run is at
    file,              \* the file at the path entered: readable, width, height
    entry,             \* the text typed at the swatch-count prompt
    k,                 \* the module's k
    printed,           \* the messages printed so far
    output_file,       \* final_output.jpg in the working directory
    shown,             \* new_image.show() was called
    k_arg,             \* create_combined_image's parameter k
    width, height,     \* original.size
    layout,            \* border_width, swatch_area_height, ... of the canvas
    new_image,         \* the canvas: size, pasted photo, rectangles, text
    pixels,            \* the analysed pixels, by colour
    colors, counts,    \* what get_dominant_colors returned
    total,
    cumulative_ratio,
    idx,               \* the position of the swatch loop in zip(colors, counts)
    format,            \* the format of the file get_exif_data opened
    raw_exif,          \* what image._getexif() returned
    exif_data,         \* what get_exif_data returned
    font,
    completed          \* the steps of create_combined_image that returned

vars == <<pc, file, entry, k, printed, output_file, shown, k_arg, width, height,
          layout, new_image, pixels, colors, counts, total, cumulative_ratio, idx,
          format, raw_exif, exif_data, font, completed>>

inputVars == <<file, entry, k, printed>>
callVars  == <<k_arg, width, height>>
swatchVars == <<pixels, colors, counts, total, cumulative_ratio, idx>>
exifVars  == <<format, raw_exif, exif_data, font>>

DefaultK == 6
spacing_between == 200
MinFontSize == 30

InvalidInputMsg == "Invalid input. Using default of 6 colors."
NoExifMsg == "No EXIF data found in the image."

NoFile == [width |-> 0, height |-> 0, readable |-> FALSE]
Files == {NoFile} \cup {[width |-> d[1], height |-> d[2], readable |-> TRUE] : d \in Dims}

BlankImage == [size |-> <<0, 0>>, photo_at |-> <<>>, rects |-> <<>>, texts |-> <<>>]
NoLayout == [border_width |-> 0, swatch_area_height |-> 0, exif_area_height |-> 0,
             new_width |-> 0, new_height |-> 0]

\* final_output.jpg before the run: not there, or left by an earlier run
PriorOutputs == {[state |-> "absent", image |-> BlankImage],
                 [state |-> "stale", image |-> BlankImage]}

NoneData == [none |-> TRUE, items |-> <<>>]
DictData(items) == [none |-> FALSE, items |-> items]

Init ==
    /\ pc = "input_path"
    /\ file = NoFile
    /\ entry = <<>>
    /\ k = 0
    /\ printed = <<>>
    /\ output_file \in PriorOutputs
    /\ shown = FALSE
    /\ k_arg = 0
    /\ width = 0
    /\ height = 0
    /\ layout = NoLayout
    /\ new_image = BlankImage
    /\ pixels = <<>>
    /\ colors = <<>>
    /\ counts = <<>>
    /\ total = 0
    /\ cumulative_ratio = Float_0_0
    /\ idx = 0
    /\ format = ""
    /\ raw_exif = NoBlock
    /\ exif_data = NoneData
    /\ font = ""
    /\ completed = {}

\* line 137: image_path = input(...)
InputPath ==
    /\ pc = "input_path"
    /\ \E f \in Files : file' = f
    /\ pc' = "input_k"
    /\ UNCHANGED <<entry, k, printed, output_file, shown, callVars, layout,
                   new_image, swatchVars, exifVars, completed>>

\* lines 138-139: the text typed is an integer literal
InputCountValid ==
    /\ pc = "input_k"
    /\ \E t \in Texts :
          /\ IsIntLiteral(t)
          /\ entry' = t
          /\ k' = IntOf(t)
    /\ pc' = "call"
    /\ UNCHANGED <<file, printed, output_file, shown, callVars, layout,
                   new_image, swatchVars, exifVars, completed>>

\* InputCountInvalid with the except branch leaving k at zero
InputCountInvalid_Zero ==
    /\ pc = "input_k"
    /\ \E t \in Texts :
          /\ ~IsIntLiteral(t)
          /\ entry' = t
    /\ printed' = Append(printed, InvalidInputMsg)
    /\ k' = 0
    /\ pc' = "call"
    /\ UNCHANGED <<file, output_file, shown, callVars, layout,
                   new_image, swatchVars, exifVars, completed>>

\* lines 138-142: int() raises ValueError
InputCountInvalid ==
    /\ pc = "input_k"
    /\ \E t \in Texts :
          /\ ~IsIntLiteral(t)
          /\ entry' = t
    /\ printed' = Append(printed, InvalidInputMsg)
    /\ k' = DefaultK
    /\ pc' = "call"
    /\ UNCHANGED <<file, output_file, shown, callVars, layout,
                   new_image, swatchVars, exifVars, completed>>

\* line 145, lines 78-79: the call, and Image.open(image_path) with its size
OpenOriginal ==
    /\ pc = "call"
    /\ k_arg' = k
    /\ entry' = <<>>
    /\ IF file.readable
       THEN /\ width' = file.width
            /\ height' = file.height
            /\ completed' = completed \cup {"open"}
            /\ pc' = "layout"
       ELSE /\ pc' = "aborted"
            /\ UNCHANGED <<width, height, completed>>
    /\ UNCHANGED <<file, k, printed, output_file, shown, layout,
                   new_image, swatchVars, exifVars>>

\* LayoutOf with the gap left out of the canvas height
LayoutOf_NoGap(w, h) ==
    LET border == FloatToInt(FloatMulInt(Float_0_1, w))
        swatch == FloatToInt(FloatMulInt(Float_0_08, h))
        exif   == FloatToInt(FloatMulInt(Float_0_2, h))
    IN  [border_width |-> border,
         swatch_area_height |-> swatch,
         exif_area_height |-> exif,
         new_width |-> w + 2 * border,
         new_height |-> h + swatch + exif + 2 * border]

\* lines 82-88
LayoutOf(w, h) ==
    LET border == FloatToInt(FloatMulInt(Float_0_1, w))
        swatch == FloatToInt(FloatMulInt(Float_0_08, h))
        exif   == FloatToInt(FloatMulInt(Float_0_2, h))
    IN  [border_width |-> border,
         swatch_area_height |-> swatch,
         exif_area_height |-> exif,
         new_width |-> w + 2 * border,
         new_height |-> h + spacing_between + swatch + exif + 2 * border]

\* line 102
swatch_y_start == layout.border_width + height + spacing_between

\* lines 82-94: the layout, the white canvas and the pasted photo
Layout ==
    /\ pc = "layout"
    /\ layout' = LayoutOf(width, height)
    /\ new_image' = [size |-> <<layout'.new_width, layout'.new_height>>,
                     photo_at |-> <<layout'.border_width, layout'.border_width>>,
                     rects |-> <<>>,
                     texts |-> <<>>]
    /\ completed' = completed \cup {"layout"}
    /\ pc' = "extract"
    /\ UNCHANGED <<inputVars, output_file, shown, callVars, swatchVars, exifVars>>

\* KMeans.fit raises ValueError: fewer than one cluster, or more clusters
\* than samples
KMeansRaises(n_clusters, n_samples) == n_clusters < 1 \/ n_clusters > n_samples

\* lines 27-29: the rows of cluster_centers_ (numbered from 0) and the counts,
\* both taken in the order p that argsort gave
SortedColors(p) == [i \in 1..Len(p) |-> p[i] - 1]
SortedCounts(cnt, p) == [i \in 1..Len(p) |-> cnt[p[i]]]

\* GetDominantColorsFails with the canvas saved as the run aborts
GetDominantColorsFails_Saves ==
    /\ pc = "extract"
    /\ \E hist \in Histograms(AnalysedPixels(width, height)) :
          /\ KMeansRaises(k_arg, SeqSum(hist))
          /\ pixels' = hist
    /\ output_file' = [state |-> "written", image |-> new_image]
    /\ pc' = "aborted"
    /\ UNCHANGED <<inputVars, shown, callVars, layout, new_image,
                   colors, counts, total, cumulative_ratio, idx, exifVars, completed>>

\* line 97 with lines 10-20: get_dominant_colors raises in KMeans.fit
GetDominantColorsFails ==
    /\ pc = "extract"
    /\ \E hist \in Histograms(AnalysedPixels(width, height)) :
          /\ KMeansRaises(k_arg, SeqSum(hist))
          /\ pixels' = hist
    /\ pc' = "aborted"
    /\ UNCHANGED <<inputVars, output_file, shown, callVars, layout, new_image,
                   colors, counts, total, cumulative_ratio, idx, exifVars, completed>>

\* lines 97-105 with lines 10-31: get_dominant_colors returns; total and the
\* start of the swatch loop
GetDominantColors ==
    /\ pc = "extract"
    /\ \E hist \in Histograms(AnalysedPixels(width, height)) :
          /\ ~KMeansRaises(k_arg, SeqSum(hist))
          /\ pixels' = hist
          /\ \E g \in Groupings(Len(hist), k_arg) :
                LET cnt == UniqueCounts(hist, g, k_arg)
                IN  \E p \in ArgSorts(cnt) :
                       /\ colors' = SortedColors(p)
                       /\ counts' = SortedCounts(cnt, p)
    /\ total' = SeqSum(counts')
    /\ cumulative_ratio' = Float_0_0
    /\ idx' = 1
    /\ completed' = completed \cup {"extract"}
    /\ pc' = "swatch"
    /\ UNCHANGED <<inputVars, output_file, shown, callVars, layout, new_image,
                   exifVars>>

\* lines 107 and 109: border_width + int(cumulative_ratio * swatch_area_width)
SwatchEdge(ratio) == layout.border_width + FloatToInt(FloatMulInt(ratio, width))

\* line 108
NextRatio(ratio, count) == FloatAdd(ratio, FloatDiv(count, total))

\* lines 106-111: one turn of the swatch loop
DrawSwatch ==
    /\ pc = "swatch"
    /\ idx <= Len(counts)
    /\ cumulative_ratio' = NextRatio(cumulative_ratio, counts[idx])
    /\ new_image' = [new_image EXCEPT !.rects = Append(@,
                        [x0 |-> SwatchEdge(cumulative_ratio),
                         y0 |-> swatch_y_start,
                         x1 |-> SwatchEdge(cumulative_ratio'),
                         y1 |-> swatch_y_start + layout.swatch_area_height,
                         fill |-> colors[idx]])]
    /\ idx' = idx + 1
    /\ IF idx = Len(counts)
       THEN /\ pc' = "exif"
            /\ completed' = completed \cup {"swatches"}
       ELSE UNCHANGED <<pc, completed>>
    /\ UNCHANGED <<inputVars, output_file, shown, callVars, layout,
                   pixels, colors, counts, total, exifVars>>

\* line 114 with lines 35-36: the file's plugin has no _getexif, AttributeError
GetExifDataFails ==
    /\ pc = "exif"
    /\ \E fmt \in Formats :
          /\ ~HasGetExif(fmt)
          /\ format' = fmt
    /\ pc' = "aborted"
    /\ UNCHANGED <<inputVars, output_file, shown, callVars, layout, new_image,
                   swatchVars, raw_exif, exif_data, font, completed>>

\* lines 37-68
ExifResult(raw) == IF NoExif(raw) THEN NoneData ELSE DictData(ExifRecord(raw.table))

\* line 114 with lines 35-68: get_exif_data returns, the file's table being
\* one of tables
GetExifData(tables) ==
    /\ pc = "exif"
    /\ \E fmt \in Formats :
          /\ HasGetExif(fmt)
          /\ format' = fmt
    /\ \E raw \in tables :
          /\ raw_exif' = raw
          /\ exif_data' = ExifResult(raw)
          /\ printed' = IF NoExif(raw) THEN Append(printed, NoExifMsg) ELSE printed
    /\ completed' = completed \cup {"exif"}
    /\ pc' = "text"
    /\ UNCHANGED <<file, entry, k, output_file, shown, callVars, layout, new_image,
                   swatchVars, font>>

\* line 120
font_size == Max(MinFontSize, FloatToInt(FloatMulInt(Float_0_03, width)))

\* line 126
text_y_start ==
    swatch_y_start + layout.swatch_area_height
        + FloatToInt(FloatMulInt(Float_0_5, layout.border_width))

\* line 127
line_spacing == FloatToInt(FloatMulInt(Float_1_2, font_size))

\* lines 128-130: one line of text for each item of the dict
TextLines(items, fnt) ==
    [j \in 1..Len(items) |->
        [x |-> layout.border_width,
         y |-> text_y_start + (j - 1) * line_spacing,
         s |-> items[j][1] \o ": " \o items[j][2].s,
         font |-> fnt]]

\* lines 117-130: the metadata text, with arial.ttf or the default font
DrawText ==
    /\ pc = "text"
    /\ IF exif_data.none
       THEN UNCHANGED <<font, new_image>>
       ELSE /\ font' \in {"arial.ttf", "default"}
            /\ new_image' = [new_image EXCEPT !.texts = TextLines(exif_data.items, font')]
    /\ completed' = completed \cup {"text"}
    /\ pc' = "save"
    /\ UNCHANGED <<inputVars, output_file, shown, callVars, layout, swatchVars,
                   format, raw_exif, exif_data>>

\* line 133
Save ==
    /\ pc = "save"
    /\ output_file' = [state |-> "written", image |-> new_image]
    /\ completed' = completed \cup {"save"}
    /\ pc' = "show"
    /\ UNCHANGED <<inputVars, shown, callVars, layout, new_image, swatchVars, exifVars>>

\* line 134
Show ==
    /\ pc = "show"
    /\ shown' = TRUE
    /\ pc' = "done"
    /\ UNCHANGED <<inputVars, output_file, callVars, layout, new_image, swatchVars,
                   exifVars, completed>>

Next ==
    \/ InputPath
    \/ InputCountValid
    \/ InputCountInvalid
    \/ OpenOriginal
    \/ Layout
    \/ GetDominantColorsFails
    \/ GetDominantColors
    \/ DrawSwatch
    \/ GetExifDataFails
    \/ GetExifData(ExifTables)
    \/ DrawText
    \/ Save
    \/ Show

Spec == Init /\ [][Next]_vars

(***************************************************************************)
(* get_exif_data and what follows it, on every raw form of the tags: the   *)
(* run has drawn the swatches of an image of one colour, three swatches    *)
(* having been asked for.                                                  *)
(***************************************************************************)
ExifInit ==
    /\ pc = "exif"
    /\ \E d \in Dims :
          /\ ~KMeansRaises(3, AnalysedPixels(d[1], d[2]))
          /\ file = [width |-> d[1], height |-> d[2], readable |-> TRUE]
          /\ width = d[1]
          /\ height = d[2]
          /\ layout = LayoutOf(d[1], d[2])
          /\ pixels = <<AnalysedPixels(d[1], d[2])>>
          /\ counts = pixels
          /\ total = pixels[1]
          /\ new_image =
                [size |-> <<layout.new_width, layout.new_height>>,
                 photo_at |-> <<layout.border_width, layout.border_width>>,
                 rects |-> << [x0 |-> layout.border_width,
                               y0 |-> layout.border_width + d[2] + spacing_between,
                               x1 |-> layout.border_width + d[1],
                               y1 |-> layout.border_width + d[2] + spacing_between
                                         + layout.swatch_area_height,
                               fill |-> 0] >>,
                 texts |-> <<>>]
    /\ entry = <<>>
    /\ k = 3
    /\ k_arg = 3
    /\ printed = <<>>
    /\ output_file \in PriorOutputs
    /\ shown = FALSE
    /\ colors = <<0>>
    /\ cumulative_ratio = FloatOfInt(1)
    /\ idx = 2
    /\ format = ""
    /\ raw_exif = NoBlock
    /\ exif_data = NoneData
    /\ font = ""
    /\ completed = {"open", "layout", "extract", "swatches"}

ExifNext ==
    \/ GetExifDataFails
    \/ GetExifData(AllExifTables)
    \/ DrawText
    \/ Save
    \/ Show

ExifSpec == ExifInit /\ [][ExifNext]_vars

(***************************************************************************)
(* The claims.                                                             *)
(***************************************************************************)
Extracted == "extract" \in completed
SwatchesDrawn == "swatches" \in completed
\* get_exif_data was called and has returned or raised
ExifCalled == SwatchesDrawn /\ pc # "exif"
Called == pc \notin {"input_path", "input_k", "call"}

\* C1: whenever get_dominant_colors returns, it returns exactly k colours and
\* k counts, and the counts sum to the number of pixels of the downscaled copy.
C1_ExactlyKSamples ==
    Extracted =>
        /\ Len(colors) = k_arg
        /\ Len(counts) = k_arg
        /\ SeqSum(counts) = AnalysedPixels(width, height)

\* C2: once the swatch loop is over, the rectangles tile the band: the first
\* starts at the margin, each later one starts where the one before ends, and
\* the last ends at margin + width.
C2_SwatchesTile ==
    SwatchesDrawn =>
        LET r == new_image.rects
        IN  /\ r[1].x0 = layout.border_width
            /\ \A i \in 1..Len(r) - 1 : r[i + 1].x0 = r[i].x1
            /\ r[Len(r)].x1 = layout.border_width + width

\* C3: the canvas is width + 2 * margin wide and height + gap + swatch band
\* + metadata band + 2 * margin high, the margin being a tenth of the width
\* rounded down; the photo is pasted at (margin, margin), every swatch spans
\* the band that starts at margin + height + gap, and the text starts at the
\* margin, below that band by half a margin.
C3_CanvasLayout ==
    "layout" \in completed =>
        LET margin == width \div 10
            gap    == 200
            band   == layout.swatch_area_height
            meta   == layout.exif_area_height
            top    == margin + height + gap
        IN  /\ new_image.size =
                  <<width + 2 * margin, height + gap + band + meta + 2 * margin>>
            /\ new_image.photo_at = <<margin, margin>>
            /\ band = (8 * height) \div 100
            /\ meta = height \div 5
            /\ \A i \in 1..Len(new_image.rects) :
                  /\ new_image.rects[i].y0 = top
                  /\ new_image.rects[i].y1 = top + band
            /\ \A j \in 1..Len(new_image.texts) :
                  /\ new_image.texts[j].x = margin
                  /\ new_image.texts[j].y >= top + band + margin \div 2
            /\ (output_file.state = "written" => output_file.image.size = new_image.size)

C3_Witness ==
    /\ pc = "done"
    /\ width >= 10
    /\ Len(new_image.rects) >= 2
    /\ Len(new_image.texts) = 5
    /\ output_file.state = "written"

\* C4: the output file is written only after get_dominant_colors and
\* get_exif_data have both returned, and a run that aborted has left the
\* output file as it was before the run.
C4_SavedOnlyAfterAnalysis ==
    /\ output_file.state = "written" =>
          /\ {"extract", "exif"} \subseteq completed
          /\ pc \in {"show", "done"}
    /\ pc = "aborted" => output_file \in PriorOutputs

C4_Witness ==
    /\ pc = "aborted"
    /\ "layout" \in completed
    /\ new_image.size # <<0, 0>>
    /\ output_file.state = "stale"

\* C5: when k exceeds the number of distinct colours of the analysed pixels,
\* get_dominant_colors does not return.
C5_FailsAboveDistinct ==
    (pixels # <<>> /\ k_arg > Len(pixels)) => ~Extracted

\* C6: once get_exif_data has been called on a file with no metadata block
\* (a format that carries none, no block, or an empty one), it has returned
\* None without raising, and the finished run has saved a canvas with the
\* metadata band in its height and no text.
C6_NoBlockReturnsNone ==
    (ExifCalled /\ (~HasGetExif(format) \/ NoExif(raw_exif))) =>
        /\ pc # "aborted"
        /\ "exif" \in completed
        /\ exif_data.none
        /\ (pc = "done" =>
               /\ output_file.state = "written"
               /\ output_file.image.texts = <<>>
               /\ output_file.image.size[2] =
                     height + spacing_between + layout.swatch_area_height
                        + layout.exif_area_height + 2 * layout.border_width)

\* C7: a swatch-count text that is no integer literal does not stop the run:
\* k is 6 when create_combined_image is called, and 6 is what it is called with.
C7_InvalidFallsBack ==
    /\ (pc = "call" /\ ~IsIntLiteral(entry)) =>
          (k = 6 /\ printed = <<InvalidInputMsg>>)
    /\ (pc = "call" /\ entry \in {<<>>, <<"x">>, <<" ">>, <<"-">>, <<"3", "x">>,
                                  <<"-", "-">>, <<"3", "-">>, <<"2", " ", "3">>}) =>
          k = 6
    /\ (Called /\ printed # <<>> /\ printed[1] = InvalidInputMsg) => k_arg = 6

C7_Witness ==
    /\ "open" \in completed
    /\ printed = <<InvalidInputMsg>>
    /\ k_arg = 6

\* C8: the k that create_combined_image and get_dominant_colors receive is at
\* least 1.
C8_CountPositive == Called => k_arg >= 1

\* the raw ExposureTime of the table read, and the "Shutter Speed" returned
ShutterRaw == ExifGet(raw_exif.table, "ExposureTime")
ShutterOut == exif_data.items[3][2]

\* the fraction each float of ShutterValues stands for
ExpectedFraction(v) ==
    CASE v.s = "0.005" -> <<1, 200>>
      [] v.s = "0.3333333333333333" -> <<1, 3>>
      [] v.s = "0.3" -> <<3, 10>>
      [] v.s = "2.5" -> <<5, 2>>

\* no fraction c/d with d up to MaxCandidateDen is nearer to the float v than p/q
NearestAmongSmall(v, p, q) ==
    \A d \in 1..MaxCandidateDen :
        LET fl == BigToInt(BigDivMod(BigMulInt(v.num, d), v.den)[1])
        IN  \A c \in {fl, fl + 1} :
               BigCmp(BigMulInt(FracDist(p, q, v.num, v.den), d),
                      BigMulInt(FracDist(c, d, v.num, v.den), q)) <= 0

\* C9: in the dict get_exif_data returns, a tuple (n, d) is rendered "n/d sec";
\* a float is rendered "n/d sec" for the nearest fraction n/d (0.005 as
\* "1/200 sec"); a value of any other type is passed through unchanged.
C9_ShutterNormalised ==
    ("exif" \in completed /\ ~exif_data.none) =>
        /\ exif_data.items[3][1] = "Shutter Speed"
        /\ ShutterRaw.kind = "tuple" =>
              ShutterOut = StrVal(ToString(ShutterRaw.a) \o "/"
                                     \o ToString(ShutterRaw.b) \o " sec")
        /\ ShutterRaw.kind = "float" =>
              LET e == ExpectedFraction(ShutterRaw)
              IN  /\ ShutterOut = StrVal(ToString(e[1]) \o "/" \o ToString(e[2]) \o " sec")
                  /\ e[2] <= 1000000
                  /\ NearestAmongSmall(ShutterRaw, e[1], e[2])
        /\ ShutterRaw.kind \notin {"tuple", "float"} => ShutterOut = ShutterRaw
        /\ (ShutterRaw = Float_0_005 => ShutterOut.s = "1/200 sec")

C9_Witness ==
    /\ pc = "done"
    /\ ~exif_data.none
    /\ ShutterRaw = Float_0_005
    /\ ShutterOut.s = "1/200 sec"
    /\ \E j \in 1..Len(output_file.image.texts) :
          output_file.image.texts[j].s = "Shutter Speed: 1/200 sec"

====
